---- MODULE Spec2Model ----
(***************************************************************************)
(* A model of src/python/preprocess_gtfs.py: the GTFS pre-processor that   *)
(* turns one or more GTFS archives and a platform configuration into the   *)
(* signage data (per-platform departures and a per-date service index).    *)
(*                                                                         *)
(* The pure methods of GTFSProcessor (_get_translation,                    *)
(* _process_calendar_data, _create_departure_record,                       *)
(* _process_stop_departures) are operators; each has a specification that  *)
(* draws its arguments in Init and applies it in one action.  main and     *)
(* process_gtfs_data are a state machine whose actions are the statements  *)
(* and loop iterations of the code.                                        *)
(***************************************************************************)
EXTENDS Integers, Sequences, FiniteSets, Bags, TLC

VARIABLES
    pc,             \* control position of the run (or of the call under study)
    config,         \* self.config: gtfs providers in order and the platform map
    feed,           \* the tables of the archive loaded last (ptg.load_feed)
    translations,   \* the translations table read last (_read_translations)
    provIdx,        \* number of providers process_gtfs_data has finished
    departure_info, \* platform -> list of departure records
    calendar,       \* date string -> collection of {gtfs_id, service_id}
    output_file,    \* the output artifact on disk
    status,         \* main's return value (the exit status)
    args,           \* arguments of the call under study
    ret             \* its return value

vars == <<pc, config, feed, translations, provIdx, departure_info, calendar,
          output_file, status, args, ret>>

(***************************************************************************)
(* Bounds of the model.                                                    *)
(***************************************************************************)
MaxTranslations == 2
MaxFeedRows == 3
MaxStopTimes == 2
MaxMergeRows == 2
MaxPairs == 2

(***************************************************************************)
(* Python and pandas values.  A cell is a tagged value: a string, a number *)
(* (v is its decimal text) or NaN, the null of a pandas table.             *)
(***************************************************************************)
S(x) == [t |-> "str", v |-> x]
N(x) == [t |-> "num", v |-> x]
NaN == [t |-> "nan", v |-> "nan"]

\* str(x): the text of a value; str(float('nan')) is 'nan'.
Str(x) == [t |-> "str", v |-> x.v]

\* pd.isna(x)
IsNa(x) == x.t = "nan"

\* x == y as pandas compares cells: NaN equals nothing, a number is no string.
PyEq(x, y) == ~IsNa(x) /\ ~IsNa(y) /\ x = y

\* `not x` for a cell that is not NaN: only the empty string is falsy here.
Falsy(x) == x = S("")

\* row.get(col, default) and `col in frame.columns`: a row is a function from
\* the columns its table has to cells.  frame[mask] is SelectSeq: the rows that
\* satisfy the mask, in table order.
HasCol(row, col) == col \in DOMAIN row

\* A DataFrame or None.
None == [loaded |-> FALSE, rows |-> <<>>]
DataFrame(rows) == [loaded |-> TRUE, rows |-> rows]

SeqsUpTo(set, n) == UNION {[1..k -> set] : k \in 0..n}

(***************************************************************************)
(* GTFSProcessor._get_translation                                          *)
(***************************************************************************)
IlocLastTranslation(matched) == matched[Len(matched)].translation

\* matched.iloc[0]['translation']
Iloc0Translation(matched) == matched[1].translation

_get_translation(tr, table_name, field_name, language, identifier) ==
    IF ~tr.loaded \/ tr.rows = <<>>
    THEN S("")
    ELSE LET ById(r) == /\ PyEq(r.table_name, table_name)
                        /\ PyEq(r.field_name, field_name)
                        /\ PyEq(r.language, language)
                        /\ PyEq(r.record_id, identifier)
             ByValue(r) == /\ PyEq(r.table_name, table_name)
                           /\ PyEq(r.field_name, field_name)
                           /\ PyEq(r.language, language)
                           /\ PyEq(r.field_value, Str(identifier))
             byId == SelectSeq(tr.rows, ById)
             matched == IF byId = <<>> THEN SelectSeq(tr.rows, ByValue) ELSE byId
         IN IF matched # <<>> THEN Iloc0Translation(matched) ELSE S("")

(***************************************************************************)
(* Inputs of the translation lookup.                                       *)
(***************************************************************************)
TranslationKeys ==
    { <<"routes", "route_long_name", "en">>,
      <<"stop_times", "route_long_name", "en">>,
      <<"routes", "stop_headsign", "en">>,
      <<"routes", "route_long_name", "ja">> }

TranslationRows ==
    { [table_name |-> S(k[1]), field_name |-> S(k[2]), language |-> S(k[3]),
       record_id |-> rid, field_value |-> fv, translation |-> tx] :
        k \in TranslationKeys,
        rid \in {S("7"), N("7"), NaN},
        fv \in {S("7"), NaN},
        tx \in {S("T1"), S("T2")} }


LookupArgs ==
    { [table_name |-> S("routes"), field_name |-> S("route_long_name"),
       language |-> S("en"), identifier |-> id] : id \in {S("7"), N("7")} }

Idle == <<>>

\* The variables of main's run, while one method is studied on its own.
NoRun ==
    /\ config = Idle /\ provIdx = 0
    /\ departure_info = Idle /\ calendar = Idle
    /\ output_file = "absent" /\ status = -1

runVars == <<config, provIdx, departure_info, calendar, output_file, status>>

InitTranslation ==
    /\ pc = "call"
    /\ \/ translations = None
       \/ \E n \in 0..MaxTranslations : \E rows \in [1..n -> TranslationRows] :
             translations = DataFrame(rows)
    /\ args \in LookupArgs
    /\ ret = Idle
    /\ feed = Idle
    /\ NoRun

CallGetTranslation ==
    /\ pc = "call"
    /\ pc' = "return"
    /\ ret' = _get_translation(translations, args.table_name, args.field_name,
                               args.language, args.identifier)
    /\ UNCHANGED <<runVars, feed, translations, args>>

NextTranslation == CallGetTranslation

SpecTranslation == InitTranslation /\ [][NextTranslation]_vars

(***************************************************************************)
(* C7                                                                      *)
(***************************************************************************)
KeyMatches(r) ==
    /\ PyEq(r.table_name, args.table_name)
    /\ PyEq(r.field_name, args.field_name)
    /\ PyEq(r.language, args.language)

IdMatches(i) ==
    KeyMatches(translations.rows[i])
        /\ PyEq(translations.rows[i].record_id, args.identifier)

ValueMatches(i) ==
    KeyMatches(translations.rows[i])
        /\ PyEq(translations.rows[i].field_value, Str(args.identifier))

Least(I) == CHOOSE i \in I : \A j \in I : i <= j

Dates == 5..6

\* date.weekday(): Monday is 0; 2025-01-01 is a Wednesday.
Weekday(date) == (date + 1) % 7

\* date.strftime('%Y-%m-%d'): the fields of the text, in its order.
_date_to_str(date) == <<"2025", "01", date>>

DateRangeExclusive(start, end) == [i \in 1..(end - start) |-> start + i - 1]

\* pd.date_range(start=start_date, end=end_date): both ends included, empty
\* when end < start.
DateRange(start, end) == [i \in 1..(end - start + 1) |-> start + i - 1]

\* valid_days = [row['monday'], ..., row['sunday']]
ValidDays(row) ==
    <<row.monday, row.tuesday, row.wednesday, row.thursday, row.friday,
      row.saturday, row.sunday>>

EmptyDict == <<>>

\* calendar[date_str] of a defaultdict(set): the access creates the key.
DefaultGet(cal, key) == IF key \in DOMAIN cal THEN cal ELSE cal @@ (key :> {})

SetDiscardNothing(set, x) == set

\* set.add(x) and set.discard(x)
SetAdd(set, x) == set \cup {x}
SetDiscard(set, x) == set \ {x}

CalendarAdd(cal, key, pair) ==
    LET c == DefaultGet(cal, key) IN [c EXCEPT ![key] = SetAdd(@, pair)]

CalendarDiscard(cal, key, pair) ==
    LET c == DefaultGet(cal, key) IN [c EXCEPT ![key] = SetDiscard(@, pair)]

\* for date in date_range: if valid_days[date.weekday()]: calendar[...].add(...)
RECURSIVE AddDates(_, _, _, _, _)
AddDates(cal, range, row, gtfs_prefix, i) ==
    IF i > Len(range) THEN cal
    ELSE LET date == range[i]
             next == IF ValidDays(row)[Weekday(date) + 1]
                     THEN CalendarAdd(cal, _date_to_str(date),
                                      <<gtfs_prefix, row.service_id>>)
                     ELSE cal
         IN AddDates(next, range, row, gtfs_prefix, i + 1)

\* for _, row in feed.calendar.iterrows(): ...
RECURSIVE CalendarRows(_, _, _, _)
CalendarRows(cal, rows, gtfs_prefix, i) ==
    IF i > Len(rows) THEN cal
    ELSE CalendarRows(
            AddDates(cal, DateRange(rows[i].start_date, rows[i].end_date),
                     rows[i], gtfs_prefix, 1),
            rows, gtfs_prefix, i + 1)

\* for _, row in feed.calendar_dates.iterrows(): ...
RECURSIVE CalendarDatesRows(_, _, _, _)
CalendarDatesRows(cal, rows, gtfs_prefix, i) ==
    IF i > Len(rows) THEN cal
    ELSE LET row == rows[i]
             key == _date_to_str(row.date)
             pair == <<gtfs_prefix, row.service_id>>
             next == IF row.exception_type = 1 THEN CalendarAdd(cal, key, pair)
                     ELSE IF row.exception_type = 2
                          THEN CalendarDiscard(cal, key, pair)
                          ELSE cal
         IN CalendarDatesRows(next, rows, gtfs_prefix, i + 1)

\* The defaultdict after the calendar table and the first n rows of the
\* calendar_dates table.
CalendarAfter(fd, gtfs_prefix, n) ==
    LET afterCalendar ==
            IF fd.calendar # <<>>
            THEN CalendarRows(EmptyDict, fd.calendar, gtfs_prefix, 1)
            ELSE EmptyDict
    IN CalendarDatesRows(afterCalendar, SubSeq(fd.calendar_dates, 1, n),
                         gtfs_prefix, 1)

\* [{'gtfs_id': gtfs_id, 'service_id': svc_id} for gtfs_id, svc_id in service_ids]:
\* a list in the set's iteration order, which is unspecified: a bag.
ServiceList(service_ids) ==
    SetToBag({[gtfs_id |-> p[1], service_id |-> p[2]] : p \in service_ids})

_process_calendar_data(fd, gtfs_prefix) ==
    LET calendar_exists == fd.calendar # <<>>
        calendar_dates_exists == fd.calendar_dates # <<>>
    IN IF ~calendar_exists /\ ~calendar_dates_exists
       THEN EmptyDict
       ELSE LET cal == CalendarAfter(fd, gtfs_prefix, Len(fd.calendar_dates))
            IN [key \in DOMAIN cal |-> ServiceList(cal[key])]

(***************************************************************************)
(* Inputs of the calendar resolver.                                        *)
(***************************************************************************)
Services == {"WD", "HD"}

MondayToFriday ==
    [monday |-> TRUE, tuesday |-> TRUE, wednesday |-> TRUE, thursday |-> TRUE,
     friday |-> TRUE, saturday |-> FALSE, sunday |-> FALSE]

SaturdayAndSunday ==
    [monday |-> FALSE, tuesday |-> FALSE, wednesday |-> FALSE,
     thursday |-> FALSE, friday |-> FALSE, saturday |-> TRUE, sunday |-> TRUE]

CalendarRowSet ==
    { [service_id |-> s, start_date |-> a, end_date |-> b] @@ days :
        s \in Services, a \in Dates, b \in Dates,
        days \in {MondayToFriday, SaturdayAndSunday} }

CalendarDatesRowSet ==
    { [service_id |-> s, date |-> d, exception_type |-> e] :
        s \in Services, d \in Dates, e \in {1, 2} }

Feed(cal, dates, stop_times, trips, routes) ==
    [calendar |-> cal, calendar_dates |-> dates, stop_times |-> stop_times,
     trips |-> trips, routes |-> routes]

\* Feeds with at most n calendar and calendar_dates rows, drawn from calRows
\* and dateRows, and no other table.
FeedsOver(calRows, dateRows, n) ==
    UNION { { Feed(cal, dates, <<>>, <<>>, <<>>) :
                cal \in [1..k -> calRows],
                dates \in SeqsUpTo(dateRows, n - k) } : k \in 0..n }

\* The feeds of FeedsOver(CalendarRowSet, CalendarDatesRowSet, MaxFeedRows).
InitCalendar ==
    /\ pc = "call"
    /\ \E k \in 0..MaxFeedRows : \E n \in 0..(MaxFeedRows - k) :
          \E cal \in [1..k -> CalendarRowSet] :
              \E dates \in [1..n -> CalendarDatesRowSet] :
                  feed = Feed(cal, dates, <<>>, <<>>, <<>>)
    /\ args = [gtfs_prefix |-> "A"]
    /\ translations = None
    /\ ret = Idle
    /\ NoRun

CallProcessCalendarData ==
    /\ pc = "call"
    /\ pc' = "return"
    /\ ret' = _process_calendar_data(feed, args.gtfs_prefix)
    /\ UNCHANGED <<runVars, feed, translations, args>>

NextCalendar == CallProcessCalendarData

SpecCalendar == InitCalendar /\ [][NextCalendar]_vars

(***************************************************************************)
(* C1, C2, C9: the calendar resolver of one provider (SpecCalendar)        *)
(***************************************************************************)
\* The set the resolver returned for date d (empty when d is no key).
ResolvedSet(d) ==
    IF _date_to_str(d) \in DOMAIN ret THEN BagToSet(ret[_date_to_str(d)]) ELSE {}

ResolvedPair(s) == [gtfs_id |-> args.gtfs_prefix, service_id |-> s]

\* The weekday flag of a calendar row for date d.
WeekdayFlag(row, d) ==
    CASE Weekday(d) = 0 -> row.monday
      [] Weekday(d) = 1 -> row.tuesday
      [] Weekday(d) = 2 -> row.wednesday
      [] Weekday(d) = 3 -> row.thursday
      [] Weekday(d) = 4 -> row.friday
      [] Weekday(d) = 5 -> row.saturday
      [] Weekday(d) = 6 -> row.sunday

Covers(row, d) ==
    row.start_date <= d /\ d <= row.end_date /\ WeekdayFlag(row, d)

IsException(j, s, d, e) ==
    /\ feed.calendar_dates[j].service_id = s
    /\ feed.calendar_dates[j].date = d
    /\ feed.calendar_dates[j].exception_type = e

\* calendar_dates row j removes (s, d) and no later row adds it again.
RemovedAt(j, s, d) ==
    /\ IsException(j, s, d, 2)
    /\ \A k \in (j + 1)..Len(feed.calendar_dates) : ~IsException(k, s, d, 1)

Removed(s, d) == \E j \in 1..Len(feed.calendar_dates) : RemovedAt(j, s, d)

WithoutRow(rows, i) == SubSeq(rows, 1, i - 1) \o SubSeq(rows, i + 1, Len(rows))

WithoutCalendarRow(i) ==
    [feed EXCEPT !.calendar = WithoutRow(feed.calendar, i)]

WithoutCalendarDatesRow(j) ==
    [feed EXCEPT !.calendar_dates = WithoutRow(feed.calendar_dates, j)]

InvertedRowsContributeNothing ==
    \A i \in 1..Len(feed.calendar) :
        feed.calendar[i].end_date < feed.calendar[i].start_date =>
            _process_calendar_data(WithoutCalendarRow(i), args.gtfs_prefix) = ret

\* C1 as claimed: every date a calendar row covers (both ends included, weekday
\* flag true) has (p, s) in its resolved set; a row with end_date < start_date
\* contributes no dates.
C1_AsClaimed ==
    pc = "return" =>
        /\ \A i \in 1..Len(feed.calendar) : \A d \in Dates :
              Covers(feed.calendar[i], d) =>
                  ResolvedPair(feed.calendar[i].service_id) \in ResolvedSet(d)
        /\ InvertedRowsContributeNothing

\* C1 as amended: every date a calendar row covers has (p, s) in its resolved
\* set unless the calendar_dates table holds an exception_type 2 row for (s, d)
\* that no exception_type 1 row for (s, d) follows, and then (p, s) is absent; a
\* row with end_date < start_date contributes no dates.
C1_CalendarRowsResolved ==
    pc = "return" =>
        /\ \A i \in 1..Len(feed.calendar) : \A d \in Dates :
              Covers(feed.calendar[i], d) =>
                  (ResolvedPair(feed.calendar[i].service_id) \in ResolvedSet(d)
                      <=> ~Removed(feed.calendar[i].service_id, d))
        /\ InvertedRowsContributeNothing

\* A two-day range whose last day is flagged is resolved on that last day, next
\* to a row whose range is inverted.
C1_Witness ==
    /\ pc = "return"
    /\ \E i, k \in 1..Len(feed.calendar) :
          /\ feed.calendar[i].start_date < feed.calendar[i].end_date
          /\ Covers(feed.calendar[i], feed.calendar[i].end_date)
          /\ ResolvedPair(feed.calendar[i].service_id)
                \in ResolvedSet(feed.calendar[i].end_date)
          /\ feed.calendar[k].end_date < feed.calendar[k].start_date

\* C2: an exception_type 2 row for (s, d) removes (p, s) from d's set, wherever
\* the pair came from or if it was never there, and unless a later
\* exception_type 1 row for (s, d) follows the pair is absent from the final set.
C2_RemovalException ==
    pc = "return" =>
        \A j \in 1..Len(feed.calendar_dates) :
            LET row == feed.calendar_dates[j]
                key == _date_to_str(row.date)
                after == CalendarAfter(feed, args.gtfs_prefix, j)
            IN row.exception_type = 2 =>
                /\ key \in DOMAIN after
                /\ <<args.gtfs_prefix, row.service_id>> \notin after[key]
                /\ RemovedAt(j, row.service_id, row.date) =>
                      ResolvedPair(row.service_id) \notin ResolvedSet(row.date)

\* One removal hits a pair a calendar row put there, another a pair that was
\* never there.
C2_Witness ==
    /\ pc = "return"
    /\ \E i \in 1..Len(feed.calendar) : \E j, k \in 1..Len(feed.calendar_dates) :
          LET hit == feed.calendar_dates[j]
              miss == feed.calendar_dates[k]
          IN /\ hit.exception_type = 2
             /\ hit.service_id = feed.calendar[i].service_id
             /\ Covers(feed.calendar[i], hit.date)
             /\ ResolvedPair(hit.service_id) \notin ResolvedSet(hit.date)
             /\ miss.exception_type = 2
             /\ miss.service_id # hit.service_id
             /\ \A d \in Dates : ~Covers(feed.calendar[i], d) \/ d # miss.date
             /\ ResolvedPair(miss.service_id) \notin ResolvedSet(miss.date)

\* C9 as claimed: an exception_type 2 row whose pair is absent when the row is
\* processed changes nothing: the resolver returns the mapping (date keys and
\* sets) it returns without the row.
C9_AsClaimed ==
    pc = "return" =>
        \A j \in 1..Len(feed.calendar_dates) :
            LET row == feed.calendar_dates[j]
                key == _date_to_str(row.date)
                before == CalendarAfter(feed, args.gtfs_prefix, j - 1)
                absent == \/ key \notin DOMAIN before
                          \/ <<args.gtfs_prefix, row.service_id>> \notin before[key]
            IN row.exception_type = 2 /\ absent =>
                _process_calendar_data(WithoutCalendarDatesRow(j),
                                       args.gtfs_prefix) = ret

(***************************************************************************)
(* GTFSProcessor._create_departure_record                                  *)
(*                                                                         *)
(* row is one stop_times row; trip_row and route_row are the frames of the *)
(* matching trips and routes rows (never empty here), read at .values[0].  *)
(***************************************************************************)
HeadsignTripFirst(row, trip_row) ==
    LET t == IF HasCol(trip_row[1], "trip_headsign")
             THEN trip_row[1].trip_headsign ELSE S("")
    IN IF IsNa(t) \/ Falsy(t)
       THEN LET h == IF HasCol(row, "stop_headsign")
                     THEN row.stop_headsign ELSE S("")
            IN IF IsNa(h) THEN S("") ELSE h
       ELSE t

\* headsign: stop_headsign, else trip_headsign
Headsign(row, trip_row) ==
    LET headsign == IF HasCol(row, "stop_headsign")
                    THEN row.stop_headsign ELSE S("")
    IN IF IsNa(headsign) \/ Falsy(headsign)
       THEN LET h == IF HasCol(trip_row[1], "trip_headsign")
                     THEN trip_row[1].trip_headsign ELSE S("")
            IN IF IsNa(h) THEN S("") ELSE h
       ELSE headsign

\* route_name: route_short_name, else route_long_name
RouteName(route_row) ==
    LET route_name == IF HasCol(route_row[1], "route_short_name")
                      THEN route_row[1].route_short_name ELSE S("")
    IN IF IsNa(route_name) \/ Falsy(route_name)
       THEN LET n == IF HasCol(route_row[1], "route_long_name")
                     THEN route_row[1].route_long_name ELSE S("")
            IN IF IsNa(n) THEN S("") ELSE n
       ELSE route_name

\* frame[col].values[0] if col in frame.columns else '', and '' when it is NaN
CellOrEmpty(frame, col) ==
    LET c == IF HasCol(frame[1], col) THEN frame[1][col] ELSE S("")
    IN IF IsNa(c) THEN S("") ELSE c

_create_departure_record(row, trip_row, route_row, gtfs_prefix, tr) ==
    LET headsign == Headsign(row, trip_row)
        route_name == RouteName(route_row)
        route_color == CellOrEmpty(route_row, "route_color")
        route_text_color == CellOrEmpty(route_row, "route_text_color")
        service_id == CellOrEmpty(trip_row, "service_id")
        route_id == trip_row[1].route_id
        route_name_en ==
            _get_translation(tr, S("routes"), S("route_long_name"), S("en"),
                             route_id)
        headsign_en ==
            _get_translation(tr, S("stop_times"), S("stop_headsign"), S("en"),
                             headsign)
    IN [departure_time |-> row.departure_time,
        route_name |-> Str(route_name),
        route_name_en |-> Str(route_name_en),
        route_color |-> Str(route_color),
        route_text_color |-> Str(route_text_color),
        headsign |-> Str(headsign),
        headsign_en |-> Str(headsign_en),
        gtfs_id |-> Str(S(gtfs_prefix)),
        service_id |-> Str(service_id)]

(***************************************************************************)
(* GTFSProcessor._process_stop_departures                                  *)
(*                                                                         *)
(* A call returns a value or raises: [raised, value].                      *)
(***************************************************************************)
Return(v) == [raised |-> FALSE, value |-> v]
Raise(e) == [raised |-> TRUE, value |-> e]

\* The null placeholder of a platform's stop list.
NoStop == [t |-> "none", v |-> "None"]

RangeOf(f) == {f[i] : i \in DOMAIN f}

\* feed.stop_times['pickup_type'] needs the column (KeyError), and
\* .astype(int) of a column holding NaN raises ValueError ("Cannot convert
\* non-finite values (NA or inf) to integer"); both are evaluated on the whole
\* column before any row is selected.
SelectionError(stop_times) ==
    IF \E r \in RangeOf(stop_times) : ~HasCol(r, "pickup_type") THEN "KeyError"
    ELSE IF \E r \in RangeOf(stop_times) : IsNa(r.pickup_type) THEN "ValueError"
    ELSE "none"

\* (stop_times['stop_id'] == stop_id) &
\*     (stop_times['pickup_type'].isna() | (stop_times['pickup_type'].astype(int) == 0))
SelectStopTimes(stop_times, stop_id) ==
    LET Regular(r) == /\ PyEq(r.stop_id, stop_id)
                      /\ (IsNa(r.pickup_type) \/ r.pickup_type = N("0"))
    IN SelectSeq(stop_times, Regular)

\* feed.trips[feed.trips['trip_id'].isin(stop_times['trip_id'])]
TripsOf(fd, stop_times) ==
    LET In(t) == \E r \in RangeOf(stop_times) : PyEq(t.trip_id, r.trip_id)
    IN SelectSeq(fd.trips, In)

\* feed.routes[feed.routes['route_id'].isin(trips['route_id'])]
RoutesOf(fd, trips) ==
    LET In(r) == \E t \in RangeOf(trips) : PyEq(r.route_id, t.route_id)
    IN SelectSeq(fd.routes, In)

\* for _, row in stop_times.iterrows(): ...
RECURSIVE Departures(_, _, _, _, _, _)
Departures(stop_times, trips, routes, gtfs_prefix, tr, i) ==
    IF i > Len(stop_times) THEN <<>>
    ELSE LET row == stop_times[i]
             rest == Departures(stop_times, trips, routes, gtfs_prefix, tr, i + 1)
             SameTrip(t) == PyEq(t.trip_id, row.trip_id)
             trip_row == SelectSeq(trips, SameTrip)
         IN IF IsNa(row.departure_time) THEN rest
            ELSE IF trip_row = <<>> THEN rest
            ELSE LET SameRoute(r) == PyEq(r.route_id, trip_row[1].route_id)
                     route_row == SelectSeq(routes, SameRoute)
                 IN IF route_row = <<>> THEN rest
                    ELSE <<_create_departure_record(row, trip_row, route_row,
                                                    gtfs_prefix, tr)>> \o rest

\* The body of `for stop_id in stop_id_list` for one stop that raises nothing.
StopDepartures(stop_id, fd, gtfs_prefix, tr) ==
    IF stop_id = NoStop THEN <<>>
    ELSE LET stop_times == SelectStopTimes(fd.stop_times, stop_id)
         IN IF stop_times = <<>> THEN <<>>
            ELSE LET trips == TripsOf(fd, stop_times)
                     routes == RoutesOf(fd, trips)
                 IN Departures(stop_times, trips, routes, gtfs_prefix, tr, 1)

_process_stop_departures(stop_id_list, fd, gtfs_prefix, tr) ==
    IF (\E i \in DOMAIN stop_id_list : stop_id_list[i] # NoStop)
          /\ SelectionError(fd.stop_times) # "none"
    THEN Raise(SelectionError(fd.stop_times))
    ELSE Return([i \in DOMAIN stop_id_list |->
                    StopDepartures(stop_id_list[i], fd, gtfs_prefix, tr)])

(***************************************************************************)
(* Inputs of the record builder: every optional column absent, NaN, empty  *)
(* or filled.                                                              *)
(***************************************************************************)
\* The rows that extend base by column col with each cell of cells, and base
\* itself (the table has no such column).
WithOptional(bases, col, cells) ==
    bases \cup {b @@ (col :> c) : b \in bases, c \in cells}

\* partridge parses "25:10:00" into seconds.
DepartureTime == N("90600")

RecordStopTimes ==
    WithOptional(
        {[stop_id |-> S("S1"), trip_id |-> S("T1"), pickup_type |-> N("0"),
          departure_time |-> DepartureTime]},
        "stop_headsign", {NaN, S(""), S("Depot")})

RecordTrips ==
    WithOptional(
        WithOptional({[trip_id |-> S("T1"), route_id |-> S("7")]},
                     "service_id", {NaN, S("WD")}),
        "trip_headsign", {NaN, S("City Hall")})

RecordRoutes ==
    WithOptional(
        WithOptional(
            WithOptional(
                WithOptional({[route_id |-> S("7")]},
                             "route_short_name", {NaN, S(""), S("12")}),
                "route_long_name", {NaN, S("Loop")}),
            "route_color", {NaN, S("FF0000")}),
        "route_text_color", {NaN})

TranslationRow(table, field, rid, fv, tx) ==
    [table_name |-> S(table), field_name |-> S(field), language |-> S("en"),
     record_id |-> rid, field_value |-> fv, translation |-> tx]

RecordTranslationRows ==
    { TranslationRow("routes", "route_long_name", S("7"), NaN, S("Loop Line")),
      TranslationRow("routes", "route_long_name", S("7"), NaN, NaN),
      TranslationRow("stop_times", "stop_headsign", NaN, S("City Hall"),
                     S("City Hall (EN)")),
      TranslationRow("stop_times", "stop_headsign", NaN, S("Depot"),
                     S("Depot (EN)")) }

InitRecord ==
    /\ pc = "call"
    /\ args \in [row : RecordStopTimes, trip_row : {<<t>> : t \in RecordTrips},
                 route_row : {<<r>> : r \in RecordRoutes}, gtfs_prefix : {"A"}]
    /\ \/ translations = None
       \/ \E n \in 0..MaxTranslations :
             \E rows \in [1..n -> RecordTranslationRows] :
                translations = DataFrame(rows)
    /\ feed = Idle
    /\ ret = Idle
    /\ NoRun

CallCreateDepartureRecord ==
    /\ pc = "call"
    /\ pc' = "return"
    /\ ret' = _create_departure_record(args.row, args.trip_row, args.route_row,
                                       args.gtfs_prefix, translations)
    /\ UNCHANGED <<runVars, feed, translations, args>>

NextRecord == CallCreateDepartureRecord

SpecRecord == InitRecord /\ [][NextRecord]_vars

(***************************************************************************)
(* C8, C10: the departure record (SpecRecord)                              *)
(***************************************************************************)
TextualFields ==
    {"route_name", "route_name_en", "route_color", "route_text_color",
     "headsign", "headsign_en", "gtfs_id", "service_id"}

\* C8 as claimed: every textual field of a record is a string, the empty
\* string standing for an unknown value: never a null, never the text of a null.
C8_AsClaimed ==
    pc = "return" =>
        \A f \in TextualFields : ret[f].t = "str" /\ ret[f] # Str(NaN)

\* The headsign the precedence of C10 gives.
FilledCell(r, col) == HasCol(r, col) /\ ~IsNa(r[col]) /\ r[col] # S("")

ClaimedHeadsign ==
    IF FilledCell(args.row, "stop_headsign") THEN args.row.stop_headsign
    ELSE IF HasCol(args.trip_row[1], "trip_headsign")
         THEN IF IsNa(args.trip_row[1].trip_headsign) THEN S("")
              ELSE args.trip_row[1].trip_headsign
         ELSE S("")

\* C10: headsign is the row's own stop_headsign when non-empty, else the trip's
\* trip_headsign when the trips table has the column ('' if null), else '';
\* headsign_en is looked up by this resolved headsign.
C10_HeadsignPrecedence ==
    pc = "return" =>
        /\ ret.headsign = ClaimedHeadsign
        /\ ret.headsign_en =
              Str(_get_translation(translations, S("stop_times"),
                                   S("stop_headsign"), S("en"), ret.headsign))

\* Both headsigns are filled and differ: the row's own wins, and its
\* translation is found under the headsign text.
C10_Witness ==
    /\ pc = "return"
    /\ FilledCell(args.row, "stop_headsign")
    /\ FilledCell(args.trip_row[1], "trip_headsign")
    /\ args.row.stop_headsign # args.trip_row[1].trip_headsign
    /\ ret.headsign = args.row.stop_headsign
    /\ ret.headsign_en = S("Depot (EN)")

(***************************************************************************)
(* Inputs of the departure extractor: a stop_times table of at most        *)
(* MaxStopTimes rows, with or without the pickup_type column.              *)
(***************************************************************************)
ExtractRowsWithPickup ==
    { [stop_id |-> S(stop), trip_id |-> S(trip), departure_time |-> dep,
       pickup_type |-> pickup] :
        stop \in {"S1", "S2"}, trip \in {"T1", "T2", "T9"},
        dep \in {DepartureTime, NaN}, pickup \in {NaN, N("0"), N("1")} }

ExtractRowsWithoutPickup ==
    { [stop_id |-> S(stop), trip_id |-> S(trip), departure_time |-> dep] :
        stop \in {"S1", "S2"}, trip \in {"T1", "T2", "T9"},
        dep \in {DepartureTime, NaN} }

\* T1 runs on route 7; T2 names a route the routes table lacks; T9 is no trip.
ExtractTrips ==
    << [trip_id |-> S("T1"), route_id |-> S("7"), service_id |-> S("WD"),
        trip_headsign |-> S("City Hall")],
       [trip_id |-> S("T2"), route_id |-> S("9"), service_id |-> S("WD"),
        trip_headsign |-> S("City Hall")] >>

ExtractRoutes ==
    << [route_id |-> S("7"), route_short_name |-> S("12"),
        route_long_name |-> S("Loop"), route_color |-> S("FF0000"),
        route_text_color |-> S("FFFFFF")] >>

StopLists == { <<S("S1")>>, <<NoStop, S("S1")>>, <<S("S2"), S("S1")>> }

InitExtract ==
    /\ pc = "call"
    /\ \E n \in 0..MaxStopTimes :
          \E rows \in {ExtractRowsWithPickup, ExtractRowsWithoutPickup} :
              \E stop_times \in [1..n -> rows] :
                  feed = Feed(<<>>, <<>>, stop_times, ExtractTrips, ExtractRoutes)
    /\ args \in [stop_id_list : StopLists, gtfs_prefix : {"A"}]
    /\ translations = None
    /\ ret = Idle
    /\ NoRun

CallProcessStopDepartures ==
    /\ pc = "call"
    /\ pc' = "return"
    /\ ret' = _process_stop_departures(args.stop_id_list, feed,
                                       args.gtfs_prefix, translations)
    /\ UNCHANGED <<runVars, feed, translations, args>>

NextExtract == CallProcessStopDepartures

SpecExtract == InitExtract /\ [][NextExtract]_vars

(***************************************************************************)
(* C5: the pickup_type filter of the departure extractor (SpecExtract)     *)
(***************************************************************************)
\* Row i of stop_times is at the stop, has a departure time, a trip and a route.
Servable(i, stop_id) ==
    LET row == feed.stop_times[i]
    IN /\ PyEq(row.stop_id, stop_id)
       /\ ~IsNa(row.departure_time)
       /\ \E t \in RangeOf(feed.trips) :
             /\ PyEq(t.trip_id, row.trip_id)
             /\ \E r \in RangeOf(feed.routes) : PyEq(r.route_id, t.route_id)

\* pickup_type is absent (no column), null or 0.
RegularPickup(row) ==
    ~HasCol(row, "pickup_type") \/ IsNa(row.pickup_type)
        \/ row.pickup_type = N("0")

\* C5 as claimed: no error aborts the extraction, and the list of each stop
\* holds exactly the servable rows of the stop whose pickup_type is absent,
\* null or 0, in table order.
C5_AsClaimed ==
    pc = "return" =>
        /\ ~ret.raised
        /\ \A k \in DOMAIN args.stop_id_list :
              LET stop_id == args.stop_id_list[k]
                  Claimed(row) ==
                      /\ \E i \in DOMAIN feed.stop_times :
                            feed.stop_times[i] = row /\ Servable(i, stop_id)
                      /\ RegularPickup(row)
                  rows == SelectSeq(feed.stop_times, Claimed)
              IN stop_id # NoStop =>
                    /\ Len(ret.value[k]) = Len(rows)
                    /\ \A n \in 1..Len(rows) :
                          ret.value[k][n].departure_time = rows[n].departure_time

(***************************************************************************)
(* main, GTFSProcessor.__init__, process_gtfs_data, save_signage_data      *)
(*                                                                         *)
(* args is what the run finds on disk: the configuration file (whether it  *)
(* exists, whether it is JSON, its keys) and the providers whose archive   *)
(* exists.  What an archive holds is drawn when it is loaded.              *)
(***************************************************************************)
RequiredKeys == {"gtfs_files", "platform", "output_file"}

\* _validate_config
_validate_config(data) == \A key \in RequiredKeys : key \in DOMAIN data

\* _load_config: the data, or ValueError for a file that is not JSON or lacks a
\* required key.
_load_config(config_file) ==
    IF ~config_file.json THEN Raise("ValueError")
    ELSE IF ~_validate_config(config_file.data) THEN Raise("ValueError")
    ELSE Return(config_file.data)

\* self.config.get("date_change_hour", 3)
DefaultDateChangeHour == 3

\* GTFSProcessor.__init__: gtfs_files is the ordered list of its provider keys.
Processor(data) ==
    [gtfs_providers |-> data.gtfs_files,
     platform_config |-> data.platform,
     output_file |-> data.output_file,
     date_change_hour |-> IF "date_change_hour" \in DOMAIN data
                          THEN data.date_change_hour
                          ELSE DefaultDateChangeHour]

\* main up to the construction of the processor: the configuration file must
\* exist, parse and hold the required keys.
Configure ==
    /\ pc = "main"
    /\ IF ~args.config_file.exists
       THEN /\ pc' = "exit"
            /\ status' = 1
            /\ UNCHANGED <<config, ret>>
       ELSE LET loaded == _load_config(args.config_file)
            IN IF loaded.raised
               THEN /\ pc' = "except"
                    /\ ret' = loaded
                    /\ UNCHANGED <<config, status>>
               ELSE /\ pc' = "process"
                    /\ config' = Processor(loaded.value)
                    /\ UNCHANGED <<ret, status>>
    /\ UNCHANGED <<feed, translations, provIdx, departure_info, calendar,
                   output_file, args>>

\* process_gtfs_data: departure_info = {platform_num: []}, calendar = {}
ProcessStart ==
    /\ pc = "process"
    /\ pc' = "loop"
    /\ departure_info' = [platform \in DOMAIN config.platform_config |-> <<>>]
    /\ calendar' = EmptyDict
    /\ provIdx' = 0
    /\ UNCHANGED <<config, feed, translations, output_file, status, args, ret>>

ArchiveAlwaysThere(provider) == FALSE

\* not os.path.exists(gtfs_file)
ArchiveMissing(provider) == provider \notin args.archives

AllStops(stop_configs, provider) ==
    [i \in DOMAIN stop_configs |-> stop_configs[i][2]]

\* [stop_id for prov, stop_id in stop_configs if prov == provider]
ProviderStops(stop_configs, provider) ==
    LET Mine(pair) == pair[1] = provider
        mine == SelectSeq(stop_configs, Mine)
    IN [i \in DOMAIN mine |-> mine[i][2]]

\* for departures in gtfs_departure_info: if departures: extend(departures)
RECURSIVE Flatten(_, _)
Flatten(lists, i) ==
    IF i > Len(lists) THEN <<>> ELSE lists[i] \o Flatten(lists, i + 1)

\* The platform loop of one provider: the new departure_info, or what the
\* extractor raised.
PlatformLoop(info, provider, fd, tr) ==
    LET Stops(platform) ==
            ProviderStops(config.platform_config[platform], provider)
        Extract(platform) ==
            _process_stop_departures(Stops(platform), fd, provider, tr)
        failing == {platform \in DOMAIN info :
                        Stops(platform) # <<>> /\ Extract(platform).raised}
    IN IF failing # {}
       THEN Extract(CHOOSE platform \in failing : TRUE)
       ELSE Return([platform \in DOMAIN info |->
                      IF Stops(platform) # <<>>
                      THEN info[platform] \o Flatten(Extract(platform).value, 1)
                      ELSE info[platform]])

GtfsCalendarOfFirstProvider(fd, provider) ==
    _process_calendar_data(fd, config.gtfs_providers[1])

\* gtfs_calendar = self._process_calendar_data(feed, provider)
GtfsCalendar(fd, provider) == _process_calendar_data(fd, provider)

\* for date, service_ids in gtfs_calendar.items(): calendar[date].extend(service_ids)
ExtendCalendar(cal, gtfs_calendar) ==
    [date \in DOMAIN cal \cup DOMAIN gtfs_calendar |->
        (IF date \in DOMAIN cal THEN cal[date] ELSE EmptyBag)
            (+) (IF date \in DOMAIN gtfs_calendar THEN gtfs_calendar[date]
                 ELSE EmptyBag)]

\* One iteration of `for provider in self.gtfs_providers`; the provider's
\* archive is one of archivesOf[provider].  An exception leaves process_gtfs_data, and its locals, behind.
ProviderIteration(archivesOf) ==
    /\ pc = "loop"
    /\ provIdx < Len(config.gtfs_providers)
    /\ LET provider == config.gtfs_providers[provIdx + 1]
       IN IF ArchiveMissing(provider)
          THEN /\ pc' = "except"
               /\ ret' = Raise("FileNotFoundError")
               /\ feed' = Idle /\ translations' = None
               /\ provIdx' = 0 /\ departure_info' = Idle /\ calendar' = Idle
          ELSE \E archive \in archivesOf[provider] :
                 LET platforms == PlatformLoop(departure_info, provider,
                                               archive.feed, archive.translations)
                 IN IF platforms.raised
                    THEN /\ pc' = "except"
                         /\ ret' = platforms
                         /\ feed' = Idle /\ translations' = None
                         /\ provIdx' = 0 /\ departure_info' = Idle
                         /\ calendar' = Idle
                    ELSE /\ pc' = "loop"
                         /\ feed' = archive.feed
                         /\ translations' = archive.translations
                         /\ departure_info' = platforms.value
                         /\ calendar' =
                               ExtendCalendar(calendar,
                                              GtfsCalendar(archive.feed, provider))
                         /\ provIdx' = provIdx + 1
                         /\ UNCHANGED ret
    /\ UNCHANGED <<config, output_file, status, args>>

\* process_gtfs_data returns the signage data.
ProcessReturn ==
    /\ pc = "loop"
    /\ provIdx = Len(config.gtfs_providers)
    /\ pc' = "save"
    /\ ret' = Return([departure_info |-> departure_info,
                      calendar |-> calendar,
                      gtfs_id |-> config.gtfs_providers,
                      date_change_hour |-> config.date_change_hour])
    /\ feed' = Idle /\ translations' = None
    /\ provIdx' = 0 /\ departure_info' = Idle /\ calendar' = Idle
    /\ UNCHANGED <<config, output_file, status, args>>

\* save_signage_data: the file is written whole, or open() fails and leaves no
\* file, or json.dump fails and leaves a part of it; a failure raises IOError.
save_signage_data ==
    /\ pc = "save"
    /\ \E written \in {"absent", "partial", "complete"} :
          /\ output_file' = written
          /\ IF written = "complete"
             THEN pc' = "statistics" /\ UNCHANGED ret
             ELSE pc' = "except" /\ ret' = Raise("IOError")
    /\ UNCHANGED <<config, feed, translations, provIdx, departure_info,
                   calendar, status, args>>

\* print_statistics, then return 0
Finish ==
    /\ pc = "statistics"
    /\ pc' = "exit"
    /\ status' = 0
    /\ UNCHANGED <<config, feed, translations, provIdx, departure_info,
                   calendar, output_file, args, ret>>

\* except FileNotFoundError / ValueError / Exception: return 1
MainExcept ==
    /\ pc = "except"
    /\ pc' = "exit"
    /\ status' = 1
    /\ UNCHANGED <<config, feed, translations, provIdx, departure_info,
                   calendar, output_file, args, ret>>

\* A run of main in one of the environments Environments.
InitRun(Environments) ==
    /\ pc = "main"
    /\ args \in Environments
    /\ config = Idle /\ feed = Idle /\ translations = None
    /\ provIdx = 0 /\ departure_info = Idle /\ calendar = Idle
    /\ output_file = "absent" /\ status = -1
    /\ ret = Idle

\* The configuration files that hold data, miss one of its keys, are not
\* JSON, or do not exist.
WithoutKey(data, key) == [k \in DOMAIN data \ {key} |-> data[k]]

ConfigFilesOf(datas) ==
    {[exists |-> TRUE, json |-> TRUE, data |-> d] : d \in datas}
    \cup {[exists |-> TRUE, json |-> TRUE, data |-> WithoutKey(d, k)] :
            d \in datas, k \in RequiredKeys}
    \cup {[exists |-> e, json |-> FALSE, data |-> <<>>] : e \in BOOLEAN}

Archive(fd, tr) == [feed |-> fd, translations |-> tr]

(***************************************************************************)
(* SpecMerge: two providers whose archives hold calendar tables.           *)
(***************************************************************************)
MergeConfig ==
    [gtfs_files |-> <<"A", "B">>,
     platform |-> ("1" :> << <<"A", S("S1")>>, <<"B", NoStop>> >>),
     output_file |-> "signage.json"]

MergeEnvironments ==
    [config_file : ConfigFilesOf({MergeConfig}), archives : SUBSET {"A", "B"}]

EveryDay ==
    [monday |-> TRUE, tuesday |-> TRUE, wednesday |-> TRUE, thursday |-> TRUE,
     friday |-> TRUE, saturday |-> TRUE, sunday |-> TRUE]

\* Both providers name their one service WD.
MergeCalendarRows ==
    { [service_id |-> "WD", start_date |-> a, end_date |-> b] @@ EveryDay :
        a \in Dates, b \in Dates }

MergeCalendarDatesRows ==
    { [service_id |-> "WD", date |-> d, exception_type |-> e] :
        d \in Dates, e \in {1, 2} }

MergeArchivesOf ==
    [provider \in {"A", "B"} |->
        { Archive(fd, None) :
            fd \in FeedsOver(MergeCalendarRows, MergeCalendarDatesRows,
                             MaxMergeRows) }]

InitMerge == InitRun(MergeEnvironments)

NextMerge ==
    \/ Configure
    \/ ProcessStart
    \/ ProviderIteration(MergeArchivesOf)
    \/ ProcessReturn
    \/ save_signage_data
    \/ Finish
    \/ MainExcept

SpecMerge == InitMerge /\ [][NextMerge]_vars

(***************************************************************************)
(* C3: the merged calendar (SpecMerge)                                     *)
(***************************************************************************)
AtMostOnce(cal) ==
    \A date \in DOMAIN cal : \A pair \in BagToSet(cal[date]) :
        CopiesIn(pair, cal[date]) = 1

\* C3: in the calendar process_gtfs_data returns, and in the one it builds on
\* the way, every date's collection holds each (gtfs_id, service_id) pair at
\* most once.
C3_PairsAtMostOnce ==
    /\ pc = "loop" => AtMostOnce(calendar)
    /\ pc = "save" => AtMostOnce(ret.value.calendar)

\* Both providers run service WD on 2025-01-05, the second through a calendar
\* row and an exception_type 1 row at once; the date lists each pair once.
C3_Witness ==
    /\ pc = "loop"
    /\ provIdx = 2
    /\ \E i \in 1..Len(feed.calendar) : \E j \in 1..Len(feed.calendar_dates) :
          /\ feed.calendar[i].service_id = "WD"
          /\ Covers(feed.calendar[i], 5)
          /\ feed.calendar_dates[j] =
                [service_id |-> "WD", date |-> 5, exception_type |-> 1]
    /\ _date_to_str(5) \in DOMAIN calendar
    /\ BagToSet(calendar[_date_to_str(5)]) =
          {[gtfs_id |-> "A", service_id |-> "WD"],
           [gtfs_id |-> "B", service_id |-> "WD"]}
    /\ AtMostOnce(calendar)

(***************************************************************************)
(* SpecPlatform: two providers, platform "1" configured with every list of *)
(* at most MaxPairs (provider, stop_id) pairs.                             *)
(***************************************************************************)
StopRow(stop, dep, pickup) ==
    [stop_id |-> S(stop), trip_id |-> S("T1"), departure_time |-> N(dep),
     pickup_type |-> pickup]

RegularStopTimes ==
    << StopRow("S1", "90600", N("0")), StopRow("S2", "91200", N("0")),
       StopRow("S1", "93600", N("0")), StopRow("S1", "94200", N("1")) >>

\* An archive with departures at S1 and S2, and the same archive with one more
\* stop_times row whose pickup_type is empty.
RegularArchive ==
    Archive(Feed(<<>>, <<>>, RegularStopTimes, ExtractTrips, ExtractRoutes), None)

NullPickupArchive ==
    Archive(Feed(<<>>, <<>>,
                 Append(RegularStopTimes, StopRow("S2", "95400", NaN)),
                 ExtractTrips, ExtractRoutes),
            None)

PlatformPairs == {<<p, stop>> : p \in {"A", "B"}, stop \in {S("S1"), S("S2"), NoStop}}

PlatformConfigs ==
    { [gtfs_files |-> <<"A", "B">>,
       platform |-> ("1" :> pairs) @@ ("2" :> << <<"B", S("S2")>>, <<"A", NoStop>> >>),
       output_file |-> "signage.json"] :
        pairs \in SeqsUpTo(PlatformPairs, MaxPairs) }

PlatformEnvironments ==
    [config_file : ConfigFilesOf(PlatformConfigs),
     archives : SUBSET {"A", "B"},
     contents : [{"A", "B"} -> {RegularArchive, NullPickupArchive}]]

PlatformArchivesOf == [provider \in {"A", "B"} |-> {args.contents[provider]}]

InitPlatform == InitRun(PlatformEnvironments)

NextPlatform ==
    \/ Configure
    \/ ProcessStart
    \/ ProviderIteration(PlatformArchivesOf)
    \/ ProcessReturn
    \/ save_signage_data
    \/ Finish
    \/ MainExcept

SpecPlatform == InitPlatform /\ [][NextPlatform]_vars

(***************************************************************************)
(* C4: the order of a platform's departures (SpecPlatform)                 *)
(***************************************************************************)
\* The Departure Extractor's list for one configured pair.
ExtractorList(pair) ==
    _process_stop_departures(<<pair[2]>>, args.contents[pair[1]].feed, pair[1],
                             args.contents[pair[1]].translations).value[1]

RECURSIVE ConcatPairs(_, _)
ConcatPairs(pairs, i) ==
    IF i > Len(pairs) THEN <<>>
    ELSE ExtractorList(pairs[i]) \o ConcatPairs(pairs, i + 1)

\* The pairs of one provider, in the order of the configured list.
PairsOf(pairs, provider) ==
    LET Mine(pair) == pair[1] = provider IN SelectSeq(pairs, Mine)

RECURSIVE ConcatProviders(_, _, _)
ConcatProviders(pairs, providers, k) ==
    IF k > Len(providers) THEN <<>>
    ELSE ConcatPairs(PairsOf(pairs, providers[k]), 1)
            \o ConcatProviders(pairs, providers, k + 1)

\* C4 as claimed: departure_info[platform] is the concatenation of the
\* extractor's lists of the platform's pairs in the order of the configured
\* list, a null stop contributing nothing.
C4_AsClaimed ==
    pc = "save" =>
        \A platform \in DOMAIN config.platform_config :
            ret.value.departure_info[platform] =
                ConcatPairs(config.platform_config[platform], 1)

\* C4 as amended: departure_info[platform] is the concatenation, provider by
\* provider in the order of gtfs_files, of the extractor's lists of that
\* provider's pairs in the order of the platform's configured list, a null stop
\* contributing nothing.
C4_DepartureOrder ==
    pc = "save" =>
        \A platform \in DOMAIN config.platform_config :
            ret.value.departure_info[platform] =
                ConcatProviders(config.platform_config[platform],
                                config.gtfs_providers, 1)

\* Platform "1" lists a stop of B before a stop of A, both with departures, and
\* the run returns A's departures first.
C4_Witness ==
    /\ pc = "save"
    /\ config.platform_config["1"] = << <<"B", S("S2")>>, <<"A", S("S1")>> >>
    /\ Len(ret.value.departure_info["1"]) = 3
    /\ ret.value.departure_info["1"][1].gtfs_id = S("A")
    /\ ret.value.departure_info["1"][3].gtfs_id = S("B")

(***************************************************************************)
(* SpecMain: three providers, any of whose archives may be missing.        *)
(***************************************************************************)
MainConfig ==
    [gtfs_files |-> <<"A", "B", "C">>,
     platform |-> ("1" :> << <<"A", S("S1")>>, <<"B", S("S2")>>, <<"C", NoStop>> >>),
     output_file |-> "signage.json"]

MainEnvironments ==
    [config_file : ConfigFilesOf({MainConfig}), archives : SUBSET {"A", "B", "C"}]

MainArchivesOf ==
    [provider \in {"A", "B", "C"} |-> {RegularArchive, NullPickupArchive}]

InitMain == InitRun(MainEnvironments)

NextMain ==
    \/ Configure
    \/ ProcessStart
    \/ ProviderIteration(MainArchivesOf)
    \/ ProcessReturn
    \/ save_signage_data
    \/ Finish
    \/ MainExcept

SpecMain == InitMain /\ [][NextMain]_vars

(***************************************************************************)
(* C6: fatal conditions leave no output (SpecMain)                         *)
(***************************************************************************)
ConfigurationError ==
    \/ ~args.config_file.exists
    \/ ~args.config_file.json
    \/ \E key \in RequiredKeys : key \notin DOMAIN args.config_file.data

SomeArchiveMissing ==
    /\ ~ConfigurationError
    /\ \E i \in 1..Len(args.config_file.data.gtfs_files) :
          args.config_file.data.gtfs_files[i] \notin args.archives

\* C6: in a run with a configuration error, or in which the archive of some
\* configured provider does not exist, the output file is never written, not
\* even in part, and the run goes on until it exits with a non-zero status.
C6_FatalBeforeOutput ==
    (ConfigurationError \/ SomeArchiveMissing) =>
        /\ output_file = "absent"
        /\ pc # "save" /\ pc # "statistics"
        /\ pc = "exit" => status = 1
        /\ pc # "exit" => ENABLED NextMain

\* The archives of the first two providers are loaded and the last one is
\* missing: the run exits with status 1 and no output.
C6_Witness ==
    /\ pc = "exit"
    /\ ~ConfigurationError
    /\ args.archives = {"A", "B"}
    /\ ret = Raise("FileNotFoundError")
    /\ status = 1
    /\ output_file = "absent"
====
